---------------------------- MODULE Spec2Model ----------------------------
(***************************************************************************)
(* Ledger model of the budget backend (src/main.py): the two MongoDB       *)
(* collections db.accounts and db.transactions and the handlers that       *)
(* change them.  Every handler is a short program of store calls; each     *)
(* store call is one atomic step (RunStep).  The specifications use the    *)
(* same steps:                                                             *)
(*   Spec      one handler at a time, run from its first line to its       *)
(*             return (one action per handler);                            *)
(*   SpecKeys  as Spec, with the timestamps a request can carry;           *)
(*   SpecSummary, SpecScenario  as Spec, with the balance summary, and     *)
(*             with transactions without category;                         *)
(*   SpecList, SpecStats  the two reading handlers on stores that the      *)
(*             writing handlers have built;                                *)
(*   SpecSteps one request at a time, one store call per step;             *)
(*   SpecFail  one request, one store call per step, which may be aborted  *)
(*             between two store calls;                                    *)
(*   SpecConc  several requests in flight, their store calls interleaved.  *)
(***************************************************************************)
EXTENDS Integers, Sequences, FiniteSets

(***************************************************************************)
(* State.                                                                  *)
(***************************************************************************)
VARIABLES
    db,       \* the store: db.accounts, db.transactions
    next_oid, \* the next ObjectId insert_one assigns
    reqs,     \* reqs[p]: the request process p runs, or ran last
    pre,      \* history: the store as it was when the latest request began
    opening,  \* history: the balance each account was created with
    trip      \* history: a create_transaction and the delete_transaction right after it

vars == <<db, next_oid, reqs, pre, opening, trip>>

(***************************************************************************)
(* Bounds of the model.                                                    *)
(***************************************************************************)
\* ObjectIds the store hands out in one behaviour (accounts + transactions).
MaxOid == 3
\* Requests in flight at once in SpecConc.
NProcs == 2

\* amount / balance are floats in the source (lines 36, 46); the model draws
\* them from integers, on which binary64 addition is exact.
Amounts == {-2, 3}
Openings == {0, 5}
Categories == {"Food", ""}

(***************************************************************************)
(* datetime values: the calendar fields strftime reads, and the UTC offset *)
(* of an aware value (hours).  None stands for an omitted timestamp.       *)
(***************************************************************************)
Datetime(y, m, d, h, aware, off) ==
    [year |-> y, month |-> m, day |-> d, hour |-> h, aware |-> aware, offset |-> off]

None == Datetime(0, 0, 0, 0, FALSE, 0)

\* Request bodies: omitted, naive, and the same wall-clock time at UTC-05:00.
TimestampInputs ==
    { None,
      Datetime(2025, 11, 30, 23, FALSE, 0),
      Datetime(2025, 11, 30, 23, TRUE, -5) }

\* Values datetime.utcnow() returns (naive, UTC).
UtcNow == { Datetime(2025, 12, 1, 4, FALSE, 0) }

IsLeap(y) == (y % 4 = 0 /\ y % 100 # 0) \/ y % 400 = 0

DaysInMonth(y, m) ==
    IF m = 2 THEN (IF IsLeap(y) THEN 29 ELSE 28)
    ELSE IF m \in {4, 6, 9, 11} THEN 30 ELSE 31

NextDay(t) ==
    IF t.day < DaysInMonth(t.year, t.month) THEN [t EXCEPT !.day = t.day + 1]
    ELSE IF t.month < 12 THEN [t EXCEPT !.day = 1, !.month = t.month + 1]
    ELSE [t EXCEPT !.day = 1, !.month = 1, !.year = t.year + 1]

PrevDay(t) ==
    IF t.day > 1 THEN [t EXCEPT !.day = t.day - 1]
    ELSE IF t.month > 1
         THEN [t EXCEPT !.day = DaysInMonth(t.year, t.month - 1), !.month = t.month - 1]
    ELSE [t EXCEPT !.day = 31, !.month = 12, !.year = t.year - 1]

\* What insert_one stores for a datetime: BSON keeps UTC milliseconds, so an
\* aware value is shifted by its offset and read back naive.
BsonDatetime(t) ==
    IF ~t.aware THEN t
    ELSE LET h == t.hour - t.offset
             n == [t EXCEPT !.aware = FALSE, !.offset = 0]
         IN  IF h >= 24 THEN NextDay([n EXCEPT !.hour = h - 24])
             ELSE IF h < 0 THEN PrevDay([n EXCEPT !.hour = h + 24])
             ELSE [n EXCEPT !.hour = h]

(***************************************************************************)
(* strftime: text is a sequence of characters.                             *)
(***************************************************************************)
Digit(n) == <<"0", "1", "2", "3", "4", "5", "6", "7", "8", "9">>[n + 1]

Pad2(n) == <<Digit((n \div 10) % 10), Digit(n % 10)>>

Pad4(n) == <<Digit((n \div 1000) % 10), Digit((n \div 100) % 10)>> \o Pad2(n)

\* ts.strftime("%Y-%m"): the value's own fields, no timezone conversion.
strftime_Ym(t) == Pad4(t.year) \o <<"-">> \o Pad2(t.month)

\* ts.strftime("%Y-%m-%d")
strftime_Ymd(t) == strftime_Ym(t) \o <<"-">> \o Pad2(t.day)

(***************************************************************************)
(* Identifiers.  An id string is well formed (24 hex digits naming the     *)
(* ObjectId oid) or not.  The store hands out 1, 2, ...; 0 is a well       *)
(* formed id that no document ever has.                                    *)
(***************************************************************************)
IdStr(n) == [wellformed |-> TRUE, oid |-> n]
Malformed == [wellformed |-> FALSE, oid |-> 0]

\* ObjectId(id_str) raises InvalidId on a malformed string.
Raises(id_str) == ~id_str.wellformed
to_object_id(id_str) == id_str.oid

(***************************************************************************)
(* The store: a collection is a function from _id to document.             *)
(***************************************************************************)
EmptyColl == [x \in {} |-> 0]

EmptyDb == [accounts |-> EmptyColl, transactions |-> EmptyColl]

insert_one(coll, id, doc) ==
    [x \in DOMAIN coll \cup {id} |-> IF x = id THEN doc ELSE coll[x]]

delete_one(coll, id) == [x \in DOMAIN coll \ {id} |-> coll[x]]

Found(coll, id) == id \in DOMAIN coll

\* update_one({"_id": id}, {"$set": ...}): what a wrong operator would do.
update_one_set(coll, id, amount) ==
    IF id \in DOMAIN coll
    THEN [coll EXCEPT ![id] = [@ EXCEPT !.balance = amount]]
    ELSE coll

\* update_many({}, {"$inc": ...}): the increment applied to every document.
update_many_inc(coll, id, amount) ==
    [x \in DOMAIN coll |-> [coll[x] EXCEPT !.balance = @ + amount]]

\* update_one({"_id": id}, {"$inc": {"balance": amount}}): one atomic store
\* operation; a filter that matches nothing changes nothing and is no error.
update_one_inc(coll, id, amount) ==
    IF id \in DOMAIN coll
    THEN [coll EXCEPT ![id] = [@ EXCEPT !.balance = @ + amount]]
    ELSE coll

\* The ids of find({"account_id": oid}).
find_by_account(coll, oid) == {t \in DOMAIN coll : coll[t].account_id = oid}

RECURSIVE SetToSeq(_)
\* A cursor's documents in _id (insertion) order.
SetToSeq(S) ==
    IF S = {} THEN <<>>
    ELSE LET m == CHOOSE x \in S : \A y \in S : x <= y
         IN  <<m>> \o SetToSeq(S \ {m})

RECURSIVE SumAmounts(_, _)
SumAmounts(coll, S) ==
    IF S = {} THEN 0
    ELSE LET t == CHOOSE x \in S : TRUE
         IN  coll[t].amount + SumAmounts(coll, S \ {t})


(***************************************************************************)
(* Documents.  An account document carries name, type, currency and last4  *)
(* beside balance, a transaction document currency, description, source    *)
(* and raw_sms; no handler that writes reads them, and they are left out.  *)
(***************************************************************************)
AccountDoc(balance) == [balance |-> balance]

\* data as create_transaction builds it (lines 126-139) and insert_one stores
\* it: day and month come from the request's datetime, timestamp is stored
\* as a BSON date.
TransactionDoc(account_oid, amount, category, ts) ==
    [account_id |-> account_oid, amount |-> amount, category |-> category,
     timestamp |-> BsonDatetime(ts),
     day |-> strftime_Ymd(ts), month |-> strftime_Ym(ts)]

(***************************************************************************)
(* A request: the handler (op), where it stands (pc), its inputs, its      *)
(* locals, and its response (status 0 while it runs).                      *)
(***************************************************************************)
\* An optional query string: month: Optional[str] = None.
Month(text) == [given |-> TRUE, text |-> text]
NoMonth == [given |-> FALSE, text |-> <<>>]

\* "if month:": a given, non-empty string.
Truthy(m) == m.given /\ m.text # <<>>

NoRequest ==
    [op |-> "none", pc |-> "idle",
     id_str |-> IdStr(0), amount |-> 0, category |-> "", timestamp |-> None,
     now |-> None,
     oid |-> 0, account_id |-> 0, tx_amount |-> 0, inserted_id |-> 0,
     txs |-> <<>>, i |-> 1,
     month |-> NoMonth, kind |-> "",
     status |-> 0, detail |-> "", deleted_transactions |-> 0,
     out |-> <<>>, assets |-> 0, liabilities |-> 0, total |-> 0]

CreateAccountReq(balance) ==
    [NoRequest EXCEPT !.op = "create_account", !.pc = "ca_insert", !.amount = balance]

CreateTransactionReq(id_str, amount, category, timestamp, now) ==
    [NoRequest EXCEPT !.op = "create_transaction", !.pc = "ct_insert",
                      !.id_str = id_str, !.amount = amount, !.category = category,
                      !.timestamp = timestamp, !.now = now]

DeleteTransactionReq(id_str) ==
    [NoRequest EXCEPT !.op = "delete_transaction", !.pc = "dt_find", !.id_str = id_str]

DeleteAccountReq(id_str) ==
    [NoRequest EXCEPT !.op = "delete_account", !.pc = "da_find", !.id_str = id_str]

AccountsSummaryReq ==
    [NoRequest EXCEPT !.op = "accounts_summary", !.pc = "as_find"]

ListTransactionsReq(month) ==
    [NoRequest EXCEPT !.op = "list_transactions", !.pc = "lt_find", !.month = month]

CategoryStatsReq(month, kind) ==
    [NoRequest EXCEPT !.op = "category_stats", !.pc = "cs_find",
                      !.month = month, !.kind = kind]

Respond(r, status, detail) ==
    [r EXCEPT !.pc = "done", !.status = status, !.detail = detail]

(***************************************************************************)
(* The handlers, one operator per store call.  w is the world a step runs  *)
(* in: the store (db), the next ObjectId (oid) and the request (req).      *)
(***************************************************************************)
\* create_account: insert_one, return.
create_account_insert(w) ==
    [db  |-> [w.db EXCEPT !.accounts = insert_one(@, w.oid, AccountDoc(w.req.amount))],
     oid |-> w.oid + 1,
     req |-> Respond([w.req EXCEPT !.inserted_id = w.oid], 200, "")]

\* The insert that also applies the amount to the balance.
create_transaction_insert_applied(w) ==
    LET r  == w.req
        ts == IF r.timestamp = None THEN r.now ELSE r.timestamp
    IN  IF Raises(r.id_str)
        THEN [w EXCEPT !.req = Respond(r, 500, "Internal Server Error")]
        ELSE LET account_oid == to_object_id(r.id_str)
             IN  [db  |-> [transactions |->
                              insert_one(w.db.transactions, w.oid,
                                  TransactionDoc(account_oid, r.amount, r.category, ts)),
                           accounts |->
                              update_one_inc(w.db.accounts, account_oid, r.amount)],
                  oid |-> w.oid + 1,
                  req |-> [r EXCEPT !.pc = "ct_update", !.oid = account_oid,
                                    !.inserted_id = w.oid]]

\* create_transaction up to insert_one.  to_object_id is not guarded: a
\* malformed account_id ends the request with the server's error response.
create_transaction_insert(w) ==
    LET r  == w.req
        ts == IF r.timestamp = None THEN r.now ELSE r.timestamp
    IN  IF Raises(r.id_str)
        THEN [w EXCEPT !.req = Respond(r, 500, "Internal Server Error")]
        ELSE LET account_oid == to_object_id(r.id_str)
             IN  [db  |-> [w.db EXCEPT !.transactions =
                              insert_one(@, w.oid,
                                  TransactionDoc(account_oid, r.amount, r.category, ts))],
                  oid |-> w.oid + 1,
                  req |-> [r EXCEPT !.pc = "ct_update", !.oid = account_oid,
                                    !.inserted_id = w.oid]]

\* create_transaction: update_one on the account, return.
create_transaction_update(w) ==
    [w EXCEPT !.db.accounts = update_one_inc(@, w.req.oid, w.req.amount),
              !.req = Respond(@, 200, "")]

\* delete_transaction: parse the id, find_one, read account_id and amount.
delete_transaction_find(w) ==
    LET r == w.req IN
    IF Raises(r.id_str)
    THEN [w EXCEPT !.req = Respond(r, 400, "Invalid transaction id")]
    ELSE LET oid == to_object_id(r.id_str) IN
         IF ~Found(w.db.transactions, oid)
         THEN [w EXCEPT !.req = Respond([r EXCEPT !.oid = oid], 404, "Transaction not found")]
         ELSE [w EXCEPT !.req = [r EXCEPT !.pc = "dt_update", !.oid = oid,
                                   !.account_id = w.db.transactions[oid].account_id,
                                   !.tx_amount = w.db.transactions[oid].amount]]

\* The reversal with the sign of the original change.
delete_transaction_update_same_sign(w) ==
    [w EXCEPT !.db.accounts = update_one_inc(@, w.req.account_id, w.req.tx_amount),
              !.req.pc = "dt_delete"]

\* delete_transaction: revert the account balance.
delete_transaction_update(w) ==
    [w EXCEPT !.db.accounts = update_one_inc(@, w.req.account_id, -w.req.tx_amount),
              !.req.pc = "dt_delete"]

\* The return without the delete_one.
delete_transaction_delete_kept(w) ==
    [w EXCEPT !.req = Respond(@, 200, "deleted")]

\* delete_transaction: delete_one, return.
delete_transaction_delete(w) ==
    [w EXCEPT !.db.transactions = delete_one(@, w.req.oid),
              !.req = Respond(@, 200, "deleted")]

\* delete_account without the "Account not found" check.
delete_account_find_unchecked(w) ==
    LET r == w.req IN
    IF Raises(r.id_str)
    THEN [w EXCEPT !.req = Respond(r, 400, "Invalid account id")]
    ELSE [w EXCEPT !.req = [r EXCEPT !.pc = "da_list", !.oid = to_object_id(r.id_str)]]

\* delete_account: parse the id, find_one.
delete_account_find(w) ==
    LET r == w.req IN
    IF Raises(r.id_str)
    THEN [w EXCEPT !.req = Respond(r, 400, "Invalid account id")]
    ELSE LET oid == to_object_id(r.id_str) IN
         IF ~Found(w.db.accounts, oid)
         THEN [w EXCEPT !.req = Respond([r EXCEPT !.oid = oid], 404, "Account not found")]
         ELSE [w EXCEPT !.req = [r EXCEPT !.pc = "da_list", !.oid = oid]]

\* delete_account: txs = list(find({"account_id": oid})).
delete_account_list(w) ==
    LET txs == SetToSeq(find_by_account(w.db.transactions, w.req.oid))
    IN  [w EXCEPT !.req = [@ EXCEPT !.txs = txs, !.i = 1,
                              !.pc = IF txs = <<>> THEN "da_delete" ELSE "da_loop"]]

\* The loop leaving after its first turn.
delete_account_loop_once(w) ==
    [w EXCEPT !.db.transactions = delete_one(@, w.req.txs[w.req.i]),
              !.req = [@ EXCEPT !.i = @ + 1, !.pc = "da_delete"]]

\* delete_account: one turn of the loop, delete_one(tx["_id"]).
delete_account_loop(w) ==
    LET r == w.req IN
    [w EXCEPT !.db.transactions = delete_one(@, r.txs[r.i]),
              !.req = [r EXCEPT !.i = r.i + 1,
                                !.pc = IF r.i < Len(r.txs) THEN "da_loop" ELSE "da_delete"]]

\* delete_account: delete the account document, return len(txs).
delete_account_delete(w) ==
    [w EXCEPT !.db.accounts = delete_one(@, w.req.oid),
              !.req = Respond([@ EXCEPT !.deleted_transactions = Len(w.req.txs)],
                              200, "deleted")]

(***************************************************************************)
(* The reading handlers: one find each, then a loop over its documents.    *)
(***************************************************************************)
\* The ids of find(query), query = {"month": month} when month is truthy.
find_by_month(coll, month) ==
    {t \in DOMAIN coll : Truthy(month) => coll[t].month = month.text}

\* Datetime order.
Before(t1, t2) ==
    \/ t1.year < t2.year
    \/ t1.year = t2.year /\ t1.month < t2.month
    \/ t1.year = t2.year /\ t1.month = t2.month /\ t1.day < t2.day
    \/ t1.year = t2.year /\ t1.month = t2.month /\ t1.day = t2.day /\ t1.hour < t2.hour

RECURSIVE sort_ascending(_, _)
\* sort("timestamp", 1): what the other direction would give.
sort_ascending(coll, S) ==
    IF S = {} THEN <<>>
    ELSE LET m == CHOOSE x \in S :
                     \A y \in S : \/ Before(coll[x].timestamp, coll[y].timestamp)
                                  \/ (coll[x].timestamp = coll[y].timestamp /\ x <= y)
         IN  <<m>> \o sort_ascending(coll, S \ {m})

RECURSIVE sort_descending(_, _)
\* sort("timestamp", -1): latest first, equal timestamps in _id order.
sort_descending(coll, S) ==
    IF S = {} THEN <<>>
    ELSE LET m == CHOOSE x \in S :
                     \A y \in S : \/ Before(coll[y].timestamp, coll[x].timestamp)
                                  \/ (coll[x].timestamp = coll[y].timestamp /\ x <= y)
         IN  <<m>> \o sort_descending(coll, S \ {m})

\* TransactionOut(id=str(d["_id"]), ...): day and month are not returned.
TransactionOut(coll, t) ==
    [id |-> IdStr(t), account_id |-> IdStr(coll[t].account_id),
     amount |-> coll[t].amount, category |-> coll[t].category,
     timestamp |-> coll[t].timestamp]

\* list_transactions: find(query).sort("timestamp", -1), one TransactionOut each.
list_transactions_find(w) ==
    LET coll == w.db.transactions
        docs == sort_descending(coll, find_by_month(coll, w.req.month))
    IN  [w EXCEPT !.req = Respond([@ EXCEPT !.out =
                                [i \in 1..Len(docs) |-> TransactionOut(coll, docs[i])]],
                            200, "")]

RECURSIVE summary_loop_abs(_, _, _)
\* The loop adding a negative balance to liabilities as a positive figure.
summary_loop_abs(coll, docs, acc) ==
    IF docs = <<>> THEN acc
    ELSE LET bal == coll[Head(docs)].balance
         IN  summary_loop_abs(coll, Tail(docs),
                 IF bal >= 0 THEN [acc EXCEPT !.assets = @ + bal]
                 ELSE [acc EXCEPT !.liabilities = @ - bal])

RECURSIVE summary_loop(_, _, _)
\* for d in docs: assets += bal if bal >= 0, liabilities += bal otherwise.
summary_loop(coll, docs, acc) ==
    IF docs = <<>> THEN acc
    ELSE LET bal == coll[Head(docs)].balance
         IN  summary_loop(coll, Tail(docs),
                 IF bal >= 0 THEN [acc EXCEPT !.assets = @ + bal]
                 ELSE [acc EXCEPT !.liabilities = @ + bal])

\* accounts_summary: find(), the loop, total = assets + liabilities.
accounts_summary_find(w) ==
    LET acc == summary_loop(w.db.accounts, SetToSeq(DOMAIN w.db.accounts),
                            [assets |-> 0, liabilities |-> 0])
    IN  [w EXCEPT !.req = Respond([@ EXCEPT !.assets = acc.assets,
                                            !.liabilities = acc.liabilities,
                                            !.total = acc.assets + acc.liabilities],
                                  200, "")]

\* totals[cat] = totals.get(cat, 0.0) + amt, totals a dict in insertion order.
Accumulate(totals, cat, amt) ==
    IF \E i \in 1..Len(totals) : totals[i].category = cat
    THEN [i \in 1..Len(totals) |->
             IF totals[i].category = cat
             THEN [totals[i] EXCEPT !.total = @ + amt] ELSE totals[i]]
    ELSE Append(totals, [category |-> cat, total |-> amt])

\* The kind filter with the comparisons of the two kinds exchanged.
Skipped_exchanged(kind, amt) ==
    \/ kind = "expense" /\ amt <= 0
    \/ kind = "income" /\ amt >= 0

\* The two "continue" tests of category_stats.
Skipped(kind, amt) ==
    \/ kind = "expense" /\ amt >= 0
    \/ kind = "income" /\ amt <= 0

RECURSIVE totals_loop(_, _, _, _)
\* for d in docs: cat = d.get("category") or "Uncategorized"; skip by kind;
\* accumulate.
totals_loop(coll, docs, kind, totals) ==
    IF docs = <<>> THEN totals
    ELSE LET d   == coll[Head(docs)]
             cat == IF d.category = "" THEN "Uncategorized" ELSE d.category
         IN  totals_loop(coll, Tail(docs), kind,
                 IF Skipped(kind, d.amount) THEN totals
                 ELSE Accumulate(totals, cat, d.amount))

\* The total left signed.
Signed(x) == x

\* abs(total)
Abs(x) == IF x < 0 THEN -x ELSE x

\* category_stats: find(query), the loop, abs(total) for kind "expense".
category_stats_find(w) ==
    LET coll   == w.db.transactions
        kind   == w.req.kind
        totals == totals_loop(coll, SetToSeq(find_by_month(coll, w.req.month)), kind, <<>>)
    IN  [w EXCEPT !.req = Respond([@ EXCEPT !.out =
                                [i \in 1..Len(totals) |->
                                    IF kind = "expense"
                                    THEN [totals[i] EXCEPT !.total = Abs(@)]
                                    ELSE totals[i]]],
                            200, "")]

Running(r) == r.pc \notin {"idle", "done", "failed"}

\* create_transaction with a read-then-write pair in place of $inc: the
\* balance is read beside insert_one and written back, plus amount, later.
create_transaction_read_then_write(w) ==
    IF w.req.pc = "ct_insert"
    THEN LET v == create_transaction_insert(w)
         IN  [v EXCEPT !.req.tx_amount =
                           IF Found(w.db.accounts, v.req.oid)
                           THEN w.db.accounts[v.req.oid].balance ELSE 0]
    ELSE [w EXCEPT !.db.accounts =
                       update_one_set(@, w.req.oid, w.req.tx_amount + w.req.amount),
                   !.req = Respond(@, 200, "")]

RunStep_read_then_write(w) ==
    CASE w.req.pc = "ca_insert" -> create_account_insert(w)
      [] w.req.pc = "ct_insert" -> create_transaction_read_then_write(w)
      [] w.req.pc = "ct_update" -> create_transaction_read_then_write(w)
      [] w.req.pc = "dt_find"   -> delete_transaction_find(w)
      [] w.req.pc = "dt_update" -> delete_transaction_update(w)
      [] w.req.pc = "dt_delete" -> delete_transaction_delete(w)
      [] w.req.pc = "da_find"   -> delete_account_find(w)
      [] w.req.pc = "da_list"   -> delete_account_list(w)
      [] w.req.pc = "da_loop"   -> delete_account_loop(w)
      [] w.req.pc = "da_delete" -> delete_account_delete(w)
      [] w.req.pc = "lt_find"   -> list_transactions_find(w)
      [] w.req.pc = "as_find"   -> accounts_summary_find(w)
      [] w.req.pc = "cs_find"   -> category_stats_find(w)

\* The next store call of a running request.
RunStep(w) ==
    CASE w.req.pc = "ca_insert" -> create_account_insert(w)
      [] w.req.pc = "ct_insert" -> create_transaction_insert(w)
      [] w.req.pc = "ct_update" -> create_transaction_update(w)
      [] w.req.pc = "dt_find"   -> delete_transaction_find(w)
      [] w.req.pc = "dt_update" -> delete_transaction_update(w)
      [] w.req.pc = "dt_delete" -> delete_transaction_delete(w)
      [] w.req.pc = "da_find"   -> delete_account_find(w)
      [] w.req.pc = "da_list"   -> delete_account_list(w)
      [] w.req.pc = "da_loop"   -> delete_account_loop(w)
      [] w.req.pc = "da_delete" -> delete_account_delete(w)
      [] w.req.pc = "lt_find"   -> list_transactions_find(w)
      [] w.req.pc = "as_find"   -> accounts_summary_find(w)
      [] w.req.pc = "cs_find"   -> category_stats_find(w)

RECURSIVE Run(_)
\* A handler from its first line to its return.
Run(w) == IF Running(w.req) THEN Run(RunStep(w)) ELSE w

World(d, o, r) == [db |-> d, oid |-> o, req |-> r]


Procs == 1..NProcs

\* Id strings a caller can send: malformed, the id no document has, and the
\* ids handed out so far.
IdStrings == {Malformed} \cup {IdStr(n) : n \in 0..(next_oid - 1)}

\* opening, extended by the accounts that d holds and opening does not know.
Opened(op, d) ==
    [a \in DOMAIN op \cup DOMAIN d.accounts |->
        IF a \in DOMAIN op THEN op[a] ELSE d.accounts[a].balance]

NoTrip == [phase |-> "none", tx |-> 0, account |-> 0, before |-> 0]

\* trip after request r has run on store d: r is a create_transaction on a
\* stored account (remember its balance before), or the delete_transaction
\* of the transaction the request before it created, or anything else.
NextTrip(tr, r, d) ==
    IF r.op = "create_transaction" /\ r.status = 200 /\ r.oid \in DOMAIN d.accounts
    THEN [phase |-> "created", tx |-> r.inserted_id, account |-> r.oid,
          before |-> d.accounts[r.oid].balance]
    ELSE IF /\ r.op = "delete_transaction" /\ r.status = 200
            /\ tr.phase = "created" /\ r.id_str = IdStr(tr.tx)
    THEN [tr EXCEPT !.phase = "deleted"]
    ELSE NoTrip

Init ==
    /\ db = EmptyDb
    /\ next_oid = 1
    /\ reqs = [p \in Procs |-> NoRequest]
    /\ pre = EmptyDb
    /\ opening = EmptyColl
    /\ trip = NoTrip

(***************************************************************************)
(* Spec: one action per handler, the whole handler in one step.            *)
(***************************************************************************)
Handle(r) ==
    LET w == Run(World(db, next_oid, r)) IN
    /\ db' = w.db
    /\ next_oid' = w.oid
    /\ reqs' = [reqs EXCEPT ![1] = w.req]
    /\ pre' = db
    /\ opening' = Opened(opening, w.db)
    /\ trip' = NextTrip(trip, w.req, db)

create_account ==
    /\ next_oid <= MaxOid
    /\ \E balance \in Openings : Handle(CreateAccountReq(balance))

create_transaction(amounts, categories, timestamps) ==
    /\ next_oid <= MaxOid
    /\ \E id_str \in IdStrings, amount \in amounts, category \in categories,
          timestamp \in timestamps, now \in UtcNow :
          Handle(CreateTransactionReq(id_str, amount, category, timestamp, now))

delete_transaction ==
    \E tx_id \in IdStrings : Handle(DeleteTransactionReq(tx_id))

delete_account ==
    \E acc_id \in IdStrings : Handle(DeleteAccountReq(acc_id))

Next ==
    \/ create_account
    \/ create_transaction(Amounts, {"Food"}, {None})
    \/ delete_transaction
    \/ delete_account

Spec == Init /\ [][Next]_vars

(***************************************************************************)
(* SpecKeys: the same handlers, with the timestamps a request can carry.   *)
(***************************************************************************)
NextKeys ==
    \/ create_account
    \/ create_transaction({3}, {"Food"}, TimestampInputs)
    \/ delete_transaction
    \/ delete_account

SpecKeys == Init /\ [][NextKeys]_vars

(***************************************************************************)
(* SpecSummary: Spec with the balance summary.                             *)
(***************************************************************************)
accounts_summary == Handle(AccountsSummaryReq)

NextSummary ==
    \/ create_account
    \/ create_transaction(Amounts, {"Food"}, {None})
    \/ delete_transaction
    \/ delete_account
    \/ accounts_summary

SpecSummary == Init /\ [][NextSummary]_vars

(***************************************************************************)
(* SpecScenario: accounts opened, transactions with and without category   *)
(* created and deleted.                                                    *)
(***************************************************************************)
NextScenario ==
    \/ create_account
    \/ create_transaction(Amounts, Categories, {None})
    \/ delete_transaction

SpecScenario == Init /\ [][NextScenario]_vars

(***************************************************************************)
(* Stores for the readers: account 1, opened empty, and up to NSeed        *)
(* transactions that create_transaction has stored on it.                  *)
(***************************************************************************)
NSeed == 3

\* The bodies of the create_transaction requests that build a store.
Seeds(amounts, categories, timestamps) ==
    UNION {[1..n -> [amount : amounts, category : categories,
                     timestamp : timestamps]] : n \in 0..NSeed}

RECURSIVE Stored(_, _)
\* The world after one create_transaction on account 1 per seed.
Stored(w, seeds) ==
    IF seeds = <<>> THEN w
    ELSE LET now == CHOOSE n \in UtcNow : TRUE
             tx  == Head(seeds)
         IN  Stored(Run(World(w.db, w.oid,
                        CreateTransactionReq(IdStr(1), tx.amount, tx.category,
                                             tx.timestamp, now))),
                    Tail(seeds))

InitStored(S) ==
    \E seeds \in S :
        LET w == Stored(Run(World(EmptyDb, 1, CreateAccountReq(0))), seeds) IN
        /\ db = w.db
        /\ next_oid = w.oid
        /\ reqs = [p \in Procs |-> NoRequest]
        /\ pre = w.db
        /\ opening = [a \in DOMAIN w.db.accounts |-> 0]
        /\ trip = NoTrip

(***************************************************************************)
(* SpecList: the transaction list over stores with naive, aware and        *)
(* defaulted timestamps.                                                   *)
(***************************************************************************)
\* month query strings: absent, empty, and the months of the timestamps.
MonthInputs ==
    {NoMonth, Month(<<>>)}
    \cup {Month(strftime_Ym(t)) : t \in (TimestampInputs \cup UtcNow) \ {None}}

InitList == InitStored(Seeds(Amounts, {"Food"}, TimestampInputs))

list_transactions ==
    \E month \in MonthInputs : Handle(ListTransactionsReq(month))

NextList == list_transactions

SpecList == InitList /\ [][NextList]_vars

(***************************************************************************)
(* SpecStats: the category report over stores with amounts of both signs   *)
(* and zero, with and without category, in two months.                     *)
(***************************************************************************)
StatsAmounts == Amounts \cup {0}

StatsTimestamps == {None, Datetime(2025, 11, 30, 23, FALSE, 0)}

StatsMonths == {NoMonth} \cup {Month(strftime_Ym(t)) : t \in UtcNow}

Kinds == {"expense", "income"}

InitStats == InitStored(Seeds(StatsAmounts, Categories, StatsTimestamps))

category_stats ==
    \E month \in StatsMonths, kind \in Kinds : Handle(CategoryStatsReq(month, kind))

NextStats == category_stats

SpecStats == InitStats /\ [][NextStats]_vars

(***************************************************************************)
(* One store call per step.                                                *)
(***************************************************************************)
\* Process p runs the next store call of its request.
Step(p) ==
    /\ Running(reqs[p])
    /\ LET w == RunStep(World(db, next_oid, reqs[p])) IN
       /\ db' = w.db
       /\ next_oid' = w.oid
       /\ reqs' = [reqs EXCEPT ![p] = w.req]
       /\ opening' = Opened(opening, w.db)
    /\ UNCHANGED <<pre, trip>>

\* The request of p ends between two store calls: the next call raises (the
\* store is unreachable) or the worker dies.  Nothing in the handlers
\* catches it, and what was written stays written.
Fail(p) ==
    /\ Running(reqs[p])
    /\ reqs' = [reqs EXCEPT ![p] = [@ EXCEPT !.pc = "failed", !.status = 500,
                                              !.detail = "Internal Server Error"]]
    /\ UNCHANGED <<db, next_oid, pre, opening, trip>>

\* The store after create_account(balance) and two create_transaction on it.
Seeded(balance, a1, a2) ==
    LET now == CHOOSE n \in UtcNow : TRUE
        w1  == Run(World(EmptyDb, 1, CreateAccountReq(balance)))
        w2  == Run(World(w1.db, w1.oid, CreateTransactionReq(IdStr(1), a1, "Food", None, now)))
    IN  Run(World(w2.db, w2.oid, CreateTransactionReq(IdStr(1), a2, "Food", None, now)))

\* A store the handlers have built: account 1 and its transactions 2 and 3.
InitSeeded ==
    \E balance \in Openings, a1 \in Amounts, a2 \in Amounts :
        LET w == Seeded(balance, a1, a2) IN
        /\ db = w.db
        /\ next_oid = w.oid
        /\ reqs = [p \in Procs |-> NoRequest]
        /\ pre = w.db
        /\ opening = [a \in DOMAIN w.db.accounts |-> balance]
        /\ trip = NoTrip

\* Requests on the seeded store: on the account, on its transactions, and
\* on ids that name nothing.
Requests(account_ids, tx_ids) ==
    {CreateAccountReq(b) : b \in Openings}
    \cup {CreateTransactionReq(i, a, "Food", None, n) :
             i \in account_ids, a \in Amounts, n \in UtcNow}
    \cup {DeleteTransactionReq(i) : i \in tx_ids}
    \cup {DeleteAccountReq(i) : i \in account_ids}

\* Process p receives request r.
Begin(p, r) ==
    /\ reqs[p].pc = "idle"
    /\ reqs' = [reqs EXCEPT ![p] = r]
    /\ UNCHANGED <<db, next_oid, pre, opening, trip>>

(***************************************************************************)
(* SpecFail: one request on the seeded store, which may be aborted between *)
(* two store calls.                                                        *)
(***************************************************************************)
BeginFail ==
    \E r \in Requests({IdStr(0), IdStr(1)}, {IdStr(0), IdStr(2), IdStr(3)}) : Begin(1, r)

NextFail ==
    \/ BeginFail
    \/ Step(1)
    \/ Fail(1)

SpecFail == InitSeeded /\ [][NextFail]_vars

(***************************************************************************)
(* SpecConc: NProcs requests, one per process, on the seeded store, their  *)
(* store calls interleaved in every order.                                 *)
(***************************************************************************)
BeginConc(p) ==
    \E r \in Requests({IdStr(1)}, {IdStr(2), IdStr(3)}) : Begin(p, r)

NextConc ==
    \E p \in Procs :
        \/ BeginConc(p)
        \/ Step(p)

SpecConc == InitSeeded /\ [][NextConc]_vars


(***************************************************************************)
(* SpecSteps: one request at a time and no failures, one store call per    *)
(* step; create_transaction is sent for stored accounts only.              *)
(***************************************************************************)
StepRequests ==
    {CreateAccountReq(b) : b \in Openings}
    \cup {CreateTransactionReq(IdStr(a), amount, "Food", None, n) :
             a \in DOMAIN db.accounts, amount \in Amounts, n \in UtcNow}
    \cup {DeleteTransactionReq(i) : i \in IdStrings}
    \cup {DeleteAccountReq(i) : i \in IdStrings}

\* The next request arrives when the one before it has returned.
BeginSteps ==
    /\ ~Running(reqs[1])
    /\ \E r \in StepRequests :
          /\ r.op \in {"create_account", "create_transaction"} => next_oid <= MaxOid
          /\ reqs' = [reqs EXCEPT ![1] = r]
    /\ pre' = db
    /\ UNCHANGED <<db, next_oid, opening, trip>>

NextSteps ==
    \/ BeginSteps
    \/ Step(1)

SpecSteps == Init /\ [][NextSteps]_vars

(***************************************************************************)
(* The ledger of account a in store d.                                     *)
(***************************************************************************)
Balance(d, a) == d.accounts[a].balance

TransactionsOf(d, a) == find_by_account(d.transactions, a)

SumOf(d, a) == SumAmounts(d.transactions, TransactionsOf(d, a))

\* The collection without the documents whose ids are in S.
Without(coll, S) == [x \in DOMAIN coll \ S |-> coll[x]]

\* The request that ran last in Spec, SpecKeys and SpecFail.
last == reqs[1]

Finished(r) == r.pc \in {"done", "failed"}

CascadeCompleteness ==
    (last.op = "delete_account" /\ ~Raises(last.id_str)
        /\ to_object_id(last.id_str) \in DOMAIN pre.accounts)
    => LET a == to_object_id(last.id_str)
           T == TransactionsOf(pre, a)
       IN  /\ last.status = 200
           /\ last.deleted_transactions = Cardinality(T)
           /\ db.transactions = Without(pre.transactions, T)
           /\ db.accounts = Without(pre.accounts, {a})
           /\ TransactionsOf(db, a) = {}

\* C3 witness: an account with two transactions was deleted.
CascadeWitness ==
    /\ last.op = "delete_account" /\ last.status = 200
    /\ Cardinality(TransactionsOf(pre, to_object_id(last.id_str))) = 2

\* C4: delete_transaction of a well-formed id that names no transaction
\* answers "Transaction not found" and changes no balance; delete_account
\* of a well-formed id that names no account answers "Account not found"
\* and deletes nothing.
NotFoundHandling ==
    /\ (last.op = "delete_transaction" /\ ~Raises(last.id_str)
           /\ to_object_id(last.id_str) \notin DOMAIN pre.transactions)
       => /\ last.status = 404 /\ last.detail = "Transaction not found"
          /\ db.accounts = pre.accounts
    /\ (last.op = "delete_account" /\ ~Raises(last.id_str)
           /\ to_object_id(last.id_str) \notin DOMAIN pre.accounts)
       => /\ last.status = 404 /\ last.detail = "Account not found"
          /\ db = pre

\* C4 witness: delete_account of an id that names no account, on a store
\* that holds an account and a transaction.
NotFoundWitness ==
    /\ last.op = "delete_account" /\ last.status = 404
    /\ DOMAIN pre.accounts # {} /\ DOMAIN pre.transactions # {}

\* C5: create_transaction whose well-formed account id names no account
\* fails with "Account not found", stores no transaction and changes no
\* balance.
CreateOnMissingAccountFails ==
    (last.op = "create_transaction" /\ ~Raises(last.id_str)
        /\ to_object_id(last.id_str) \notin DOMAIN pre.accounts)
    => /\ last.status = 404
       /\ db = pre

\* C6: when a create_transaction has returned or was aborted, every
\* transaction it stored is reflected in its account's balance.
CreateAtomicity ==
    (last.op = "create_transaction" /\ Finished(last) /\ ~Raises(last.id_str)
        /\ to_object_id(last.id_str) \in DOMAIN db.accounts)
    => LET a == to_object_id(last.id_str)
           new == DOMAIN db.transactions \ DOMAIN pre.transactions
       IN  Balance(db, a) = Balance(pre, a) + SumAmounts(db.transactions, new)

\* C7: when a delete_transaction has returned or was aborted, either the
\* record is stored and the balance is as before, or the record is gone and
\* the balance is reversed.
DeleteAtomicity ==
    (last.op = "delete_transaction" /\ Finished(last) /\ ~Raises(last.id_str)
        /\ to_object_id(last.id_str) \in DOMAIN pre.transactions)
    => LET t == to_object_id(last.id_str)
           a == pre.transactions[t].account_id
       IN  a \in DOMAIN db.accounts =>
              IF t \in DOMAIN db.transactions
              THEN Balance(db, a) = Balance(pre, a)
              ELSE Balance(db, a) = Balance(pre, a) - pre.transactions[t].amount

\* C8: when a delete_account has returned or was aborted, no transaction
\* references a deleted account, and an account that is still stored has
\* all the transactions it had, or none.
CascadeAtomicity ==
    (last.op = "delete_account" /\ Finished(last) /\ ~Raises(last.id_str)
        /\ to_object_id(last.id_str) \in DOMAIN pre.accounts)
    => LET a == to_object_id(last.id_str)
       IN  IF a \in DOMAIN db.accounts
           THEN TransactionsOf(db, a) \in {TransactionsOf(pre, a), {}}
           ELSE TransactionsOf(db, a) = {}

\* What a returned request added to the balance of account a.
Delta(r, a) ==
    IF r.op = "create_transaction" /\ r.status = 200 /\ r.oid = a THEN r.amount
    ELSE IF r.op = "delete_transaction" /\ r.status = 200 /\ r.account_id = a
    THEN -r.tx_amount
    ELSE 0

RECURSIVE SumDelta(_, _)
SumDelta(P, a) ==
    IF P = {} THEN 0
    ELSE LET p == CHOOSE x \in P : TRUE
         IN  Delta(reqs[p], a) + SumDelta(P \ {p}, a)

Quiescent == \A p \in Procs : ~Running(reqs[p])

DistinctDeletes ==
    \A p, q \in Procs :
        (p # q /\ reqs[p].op = "delete_transaction" /\ reqs[q].op = "delete_transaction")
            => reqs[p].id_str # reqs[q].id_str

\* C9: once all the interleaved create_transaction and delete_transaction
\* requests (each delete on its own transaction) have returned, the
\* account's balance is its balance before them plus the created amounts
\* minus the deleted amounts.
NoLostUpdates ==
    (Quiescent /\ DistinctDeletes)
    => \A a \in DOMAIN db.accounts \cap DOMAIN pre.accounts :
           Balance(db, a) = Balance(pre, a) + SumDelta(Procs, a)

\* C9 witness: a create_transaction and a delete_transaction on the same
\* account have both returned.
NoLostUpdatesWitness ==
    /\ Quiescent
    /\ \E p, q \in Procs, a \in DOMAIN db.accounts :
          /\ reqs[p].op = "create_transaction" /\ reqs[p].status = 200 /\ reqs[p].oid = a
          /\ reqs[q].op = "delete_transaction" /\ reqs[q].status = 200
          /\ reqs[q].account_id = a

\* C10: every stored transaction's day is its stored timestamp formatted
\* as YYYY-MM-DD and its month that timestamp formatted as YYYY-MM, the
\* first seven characters of day.
DerivedKeys ==
    \A t \in DOMAIN db.transactions :
        LET tx == db.transactions[t] IN
        /\ tx.day = strftime_Ymd(tx.timestamp)
        /\ tx.month = strftime_Ym(tx.timestamp)
        /\ tx.month = SubSeq(tx.day, 1, 7)


\* The ids a returned list names.
Listed(out) == {to_object_id(out[i].id) : i \in 1..Len(out)}

\* C11: list_transactions returns each stored transaction once when no
\* month is given (the query string is absent or empty), and exactly those
\* whose month key is the argument when one is given, latest timestamp
\* first.
ListTransactionsContract ==
    (last.op = "list_transactions")
    => LET out  == last.out
           coll == db.transactions
           want == IF last.month.given /\ last.month.text # <<>>
                   THEN {t \in DOMAIN coll : coll[t].month = last.month.text}
                   ELSE DOMAIN coll
       IN  /\ last.status = 200
           /\ Len(out) = Cardinality(want)
           /\ Listed(out) = want
           /\ \A i \in 1..Len(out) :
                 /\ out[i].timestamp = coll[to_object_id(out[i].id)].timestamp
                 /\ out[i].amount = coll[to_object_id(out[i].id)].amount
           /\ \A i \in 1..(Len(out) - 1) :
                 ~Before(out[i].timestamp, out[i + 1].timestamp)

\* C11 witness: a month was given, the list holds two transactions with
\* different timestamps and leaves a stored transaction of another month out.
ListTransactionsWitness ==
    /\ last.op = "list_transactions"
    /\ last.month.given
    /\ Len(last.out) = 2
    /\ last.out[1].timestamp # last.out[2].timestamp
    /\ Cardinality(DOMAIN db.transactions) = 3


\* The category a statistics row carries for a stored category.
Label(category) == IF category = "" THEN "Uncategorized" ELSE category

\* The stored transactions a statistics request selects.
Selected(coll, month, kind) ==
    {t \in DOMAIN coll :
        /\ (month.given /\ month.text # <<>>) => coll[t].month = month.text
        /\ kind = "expense" => coll[t].amount < 0
        /\ kind = "income" => coll[t].amount > 0}

\* C12: category_stats equals the reference aggregation: expense takes the
\* negative amounts, income the positive ones, zero neither; an empty
\* category counts as Uncategorized; each category has one row; the total is
\* the absolute sum for expense, the sum for income, and is positive.
CategoryStatsContract ==
    (last.op = "category_stats")
    => LET out    == last.out
           coll   == db.transactions
           sel    == Selected(coll, last.month, last.kind)
           labels == {Label(coll[t].category) : t \in sel}
           sum(c) == SumAmounts(coll, {t \in sel : Label(coll[t].category) = c})
       IN  /\ last.status = 200
           /\ Len(out) = Cardinality(labels)
           /\ {out[i].category : i \in 1..Len(out)} = labels
           /\ \A i \in 1..Len(out) :
                 /\ out[i].total = IF last.kind = "expense"
                                   THEN 0 - sum(out[i].category)
                                   ELSE sum(out[i].category)
                 /\ out[i].total > 0

\* C12 witness: an expense report of two rows, one of them Uncategorized,
\* over a store that holds a third transaction.
CategoryStatsWitness ==
    /\ last.op = "category_stats"
    /\ last.kind = "expense"
    /\ Len(last.out) = 2
    /\ \E i \in 1..2 : last.out[i].category = "Uncategorized"
    /\ Cardinality(DOMAIN db.transactions) = 3

RECURSIVE SumBalances(_, _)
SumBalances(coll, S) ==
    IF S = {} THEN 0
    ELSE LET a == CHOOSE x \in S : TRUE
         IN  coll[a].balance + SumBalances(coll, S \ {a})

\* C13: accounts_summary reports the sum of the non-negative balances as
\* assets, the sum of the negative ones as liabilities (never positive), and
\* their sum, the sum of all balances, as total.
AccountsSummaryContract ==
    (last.op = "accounts_summary")
    => LET coll == db.accounts IN
       /\ last.status = 200
       /\ last.assets = SumBalances(coll, {a \in DOMAIN coll : coll[a].balance >= 0})
       /\ last.liabilities = SumBalances(coll, {a \in DOMAIN coll : coll[a].balance < 0})
       /\ last.liabilities <= 0
       /\ last.total = last.assets + last.liabilities
       /\ last.total = SumBalances(coll, DOMAIN coll)

\* C13 witness: a summary over an account in credit and an overdrawn one.
AccountsSummaryWitness ==
    /\ last.op = "accounts_summary"
    /\ last.assets > 0
    /\ last.liabilities < 0


\* C14: create_transaction, delete_transaction and delete_account answer a
\* malformed identifier with the invalid-id error (400) and leave the store
\* as it was.
MalformedIdRejected ==
    (/\ last.op \in {"create_transaction", "delete_transaction", "delete_account"}
     /\ Raises(last.id_str))
    => (last.status = 400 /\ db = pre)

\* The account a finished create_transaction or delete_transaction names.
Referenced(r, d) ==
    IF r.op = "create_transaction" THEN {r.oid}
    ELSE {d.transactions[t].account_id :
             t \in {to_object_id(r.id_str)} \cap DOMAIN d.transactions}

\* C18: a transaction stored before and after a request has the same
\* fields; create_transaction and delete_transaction change the balance of
\* the account they name and nothing else of any other account or
\* transaction; create_account adds one account and no transaction.
FrameConditions ==
    /\ \A t \in DOMAIN db.transactions \cap DOMAIN pre.transactions :
          db.transactions[t] = pre.transactions[t]
    /\ (last.op \in {"create_transaction", "delete_transaction"} /\ last.status = 200)
       => /\ DOMAIN db.accounts = DOMAIN pre.accounts
          /\ \A a \in DOMAIN pre.accounts \ Referenced(last, pre) :
                db.accounts[a] = pre.accounts[a]
          /\ last.op = "create_transaction"
             => DOMAIN db.transactions = DOMAIN pre.transactions \cup {last.inserted_id}
          /\ last.op = "delete_transaction"
             => DOMAIN db.transactions = DOMAIN pre.transactions \ {to_object_id(last.id_str)}
    /\ (last.op \in {"create_transaction", "delete_transaction"} /\ last.status # 200)
       => db = pre
    /\ (last.op = "create_account")
       => /\ db.transactions = pre.transactions
          /\ Cardinality(DOMAIN db.accounts \ DOMAIN pre.accounts) = 1
          /\ \A a \in DOMAIN pre.accounts :
                a \in DOMAIN db.accounts /\ db.accounts[a] = pre.accounts[a]

\* C18 witness: a transaction was created on one of two stored accounts and
\* moved its balance.
FrameWitness ==
    /\ last.op = "create_transaction"
    /\ last.status = 200
    /\ Cardinality(DOMAIN db.accounts) = 2
    /\ last.oid \in DOMAIN db.accounts
    /\ Balance(db, last.oid) # Balance(pre, last.oid)


\* The expense report of store d for all months.
ExpenseStats(d) ==
    category_stats_find(World(d, 0, CategoryStatsReq(NoMonth, "expense"))).req.out

\* The last request created an expense on an account that was opened with
\* balance 0, in a store without transactions.
ScenarioCreated ==
    /\ last.op = "create_transaction"
    /\ last.status = 200
    /\ last.amount < 0
    /\ last.oid \in DOMAIN pre.accounts
    /\ opening[last.oid] = 0
    /\ DOMAIN pre.transactions = {}

\* The last request deleted that expense, the request before it created it.
ScenarioDeleted ==
    /\ trip.phase = "deleted"
    /\ trip.account \in DOMAIN opening
    /\ opening[trip.account] = 0
    /\ DOMAIN pre.transactions = {trip.tx}
    /\ pre.transactions[trip.tx].amount < 0

\* C15 as stated: after the create the balance is the amount and the
\* expense report is the one row (c, |a|); after the delete the balance is 0
\* and the report is empty.
EndToEndScenario ==
    /\ ScenarioCreated
       => /\ Balance(db, last.oid) = last.amount
          /\ ExpenseStats(db) = <<[category |-> last.category,
                                   total |-> 0 - last.amount]>>
    /\ ScenarioDeleted
       => /\ Balance(db, trip.account) = 0
          /\ ExpenseStats(db) = <<>>

\* C15 amended: the row carries c, or Uncategorized when c is empty.
EndToEndScenarioLabelled ==
    /\ ScenarioCreated
       => /\ Balance(db, last.oid) = last.amount
          /\ ExpenseStats(db) = <<[category |-> Label(last.category),
                                   total |-> 0 - last.amount]>>
    /\ ScenarioDeleted
       => /\ Balance(db, trip.account) = 0
          /\ ExpenseStats(db) = <<>>

\* C15 witness: the scenario has run to its end with an empty category.
EndToEndWitness ==
    /\ ScenarioDeleted
    /\ pre.transactions[trip.tx].category = ""


\* The ids of the transactions that were stored in d and are not any more:
\* handed out, never an account, not stored.
Deleted(d) ==
    {t \in 1..(next_oid - 1) : t \notin DOMAIN opening /\ t \notin DOMAIN d.transactions}

\* Between its two store calls create_transaction has stored the record and
\* not touched the balance; delete_transaction has reversed the balance and
\* still holds the record.
LifecycleStates ==
    /\ last.pc = "ct_update"
       => /\ last.inserted_id \in DOMAIN db.transactions
          /\ last.inserted_id \notin DOMAIN pre.transactions
          /\ db.accounts = pre.accounts
    /\ (last.op = "create_transaction" /\ last.pc = "done" /\ last.status = 200)
       => /\ last.inserted_id \in DOMAIN db.transactions
          /\ Balance(db, last.oid) = Balance(pre, last.oid) + last.amount
    /\ last.pc = "dt_delete"
       => /\ last.oid \in DOMAIN db.transactions
          /\ last.account_id \in DOMAIN db.accounts
             => Balance(db, last.account_id)
                    = Balance(pre, last.account_id) - last.tx_amount
    /\ (last.op = "delete_transaction" /\ last.pc = "done" /\ last.status = 200)
       => last.oid \notin DOMAIN db.transactions
    /\ (/\ last.op = "delete_transaction" /\ last.pc = "done"
        /\ ~Raises(last.id_str) /\ to_object_id(last.id_str) \in Deleted(pre))
       => /\ last.status = 404
          /\ last.detail = "Transaction not found"
          /\ db = pre

\* A step stores no transaction under an id that was handed out before.
OnlyFreshIdsStored ==
    /\ DOMAIN db'.transactions \ DOMAIN db.transactions \subseteq {next_oid}
    /\ next_oid' >= next_oid

\* C16: create_transaction persists the record before it applies the amount,
\* delete_transaction reverses the amount before it removes the record, and
\* a deleted id is never stored again: deleting it once more is answered
\* "Transaction not found" and changes nothing.
LifecycleOrdering == [](LifecycleStates) /\ [][OnlyFreshIdsStored]_vars

\* C16 witness: a transaction was created and deleted, and a second delete
\* of its id has been answered.
LifecycleWitness ==
    /\ last.op = "delete_transaction"
    /\ last.pc = "done"
    /\ ~Raises(last.id_str)
    /\ to_object_id(last.id_str) \in Deleted(pre)

\* C17: when the interleaved create_transaction and delete_account requests
\* on the account have all returned, every stored transaction names a
\* stored account.
NoOrphanAfterCascade ==
    (/\ Quiescent
     /\ \A p \in Procs : reqs[p].op \in {"", "create_transaction", "delete_account"})
    => \A t \in DOMAIN db.transactions :
           db.transactions[t].account_id \in DOMAIN db.accounts

AtMostOnceReversal ==
    Quiescent
    => \A p, q \in Procs :
          (/\ p # q
           /\ reqs[p].op = "delete_transaction" /\ reqs[q].op = "delete_transaction"
           /\ reqs[p].id_str = reqs[q].id_str
           /\ ~Raises(reqs[p].id_str)
           /\ to_object_id(reqs[p].id_str) \in DOMAIN pre.transactions)
          => LET tx == pre.transactions[to_object_id(reqs[p].id_str)]
                 a  == tx.account_id
             IN  /\ ~(reqs[p].status = 200 /\ reqs[q].status = 200)
                 /\ a \in DOMAIN db.accounts
                    => (Balance(db, a) - SumDelta(Procs \ {p, q}, a))
                           \in {Balance(pre, a), Balance(pre, a) - tx.amount}

=============================================================================
